---------------------------- MODULE Spec2Model ----------------------------
(***************************************************************************)
(* A model of the asset ingestion pipeline of the 3D configurator:         *)
(* ModelUploader.processFiles / patchGltfContent, the page's               *)
(* handleModelSelect, and ProductViewer.applyTexture.                      *)
(*                                                                         *)
(* Strings are sequences of tokens.  The single-character tokens are       *)
(* "a", "A", "x", "/" and "\\"; every other token (".glb", ".png", "%41",  *)
(* "data:", "logo", ...) is a run of characters that starts with a         *)
(* character occurring nowhere else, so that equality, endsWith,           *)
(* startsWith and includes on the token sequences agree with the same      *)
(* operations on the character strings.                                    *)
(***************************************************************************)
EXTENDS Integers, Sequences, FiniteSets, TLC

(***************************************************************************)
(* Bounds of the model.                                                    *)
(***************************************************************************)
MaxPool == 2
MaxBuffers == 1
MaxImages == 2

(***************************************************************************)
(* String operations.                                                      *)
(***************************************************************************)
Min(S) == CHOOSE m \in S : \A n \in S : m <= n
Max(S) == CHOOSE m \in S : \A n \in S : m >= n

\* String.prototype.toLowerCase, per token
LowerTok(c) ==
  CASE c = "A" -> "a"
    [] c = ".GLB" -> ".glb"
    [] c = ".PNG" -> ".png"
    [] c = "LOGO" -> "logo"
    [] c = "Body" -> "body"
    [] OTHER -> c

ToLowerCase(s) == [i \in 1..Len(s) |-> LowerTok(s[i])]

EndsWith(s, suffix) ==
  /\ Len(suffix) <= Len(s)
  /\ SubSeq(s, Len(s) - Len(suffix) + 1, Len(s)) = suffix

StartsWith(s, prefix) ==
  /\ Len(prefix) <= Len(s)
  /\ SubSeq(s, 1, Len(prefix)) = prefix

\* String.prototype.includes
Includes(s, part) ==
  \E i \in 0..(Len(s) - Len(part)) : SubSeq(s, i + 1, i + Len(part)) = part

\* decodeURIComponent throws URIError on a malformed escape
DecodeThrows(s) == \E i \in 1..Len(s) : s[i] = "%zz"

\* decodeURIComponent: "%41" is the escape of "A"
DecodeURIComponent(s) == [i \in 1..Len(s) |-> IF s[i] = "%41" THEN "A" ELSE s[i]]

\* s.split(seps).pop(): the text after the last separator
SplitPop(s, seps) ==
  LET at == {i \in 1..Len(s) : s[i] \in seps}
  IN  IF at = {} THEN s ELSE SubSeq(s, Max(at) + 1, Len(s))

(***************************************************************************)
(* Files, blob URLs and the resource Map.                                  *)
(***************************************************************************)
\* A File: its name and what its bytes are (a key of Docs, a key of
\* Archives, or opaque bytes).
MkFile(n, d) == [name |-> n, data |-> d]
NoFile == MkFile(<<>>, "none")

\* A blob URL is named by the ingestion that created it and its rank
\* among that ingestion's createObjectURL calls; every call returns a
\* URL of its own.
MkUrl(t, k) == [t |-> t, k |-> k]
NullUrl == MkUrl(0, 0)

\* Map.prototype.has / get / set on a Map kept as the sequence of its
\* entries in insertion order
MapHas(m, key) == \E i \in 1..Len(m) : m[i].key = key

MapGet(m, key) == m[CHOOSE i \in 1..Len(m) : m[i].key = key].file

\* set on a present key replaces the value and keeps the entry's place
MapSet(m, key, file) ==
  IF MapHas(m, key)
  THEN [i \in 1..Len(m) |-> IF m[i].key = key THEN [key |-> key, file |-> file] ELSE m[i]]
  ELSE Append(m, [key |-> key, file |-> file])

\* files.forEach(f => resourceMap.set(f.name, f))
RECURSIVE ResourceMapFrom(_, _)
ResourceMapFrom(files, m) ==
  IF files = <<>> THEN m
  ELSE ResourceMapFrom(Tail(files), MapSet(m, Head(files).name, Head(files)))

ResourceMap(files) == ResourceMapFrom(files, <<>>)

(***************************************************************************)
(* patchGltfContent.getResource                                            *)
(***************************************************************************)
Found(f) == [tag |-> "file", file |-> f]
Undefined == [tag |-> "undefined", file |-> NoFile]
Thrown == [tag |-> "throw", file |-> NoFile]

\* the loop without its endsWith test
LoopHitsNoSuffix(resources, filename) ==
  {i \in 1..Len(resources) :
      ToLowerCase(resources[i].key) = ToLowerCase(filename)}

\* the entries the single loop of getResource accepts: a key equal to the
\* basename ignoring case, or a key ending with the basename
LoopHits(resources, filename) ==
  {i \in 1..Len(resources) :
      \/ ToLowerCase(resources[i].key) = ToLowerCase(filename)
      \/ EndsWith(resources[i].key, filename)}

GetResource(uri, resources) ==
  IF MapHas(resources, uri) THEN Found(MapGet(resources, uri))
  ELSE IF DecodeThrows(uri) THEN Thrown
  ELSE LET filename == SplitPop(DecodeURIComponent(uri), {"/", "\\"})
       IN  IF filename = <<>> THEN Undefined
           ELSE LET hits == LoopHits(resources, filename)
                IN  IF hits = {} THEN Undefined
                    ELSE Found(resources[Min(hits)].file)

(***************************************************************************)
(* The glTF document.  An optional JSON member is a sequence: <<>> when    *)
(* absent, <<v>> when present.  A buffer or image is its uri (<<>> when    *)
(* absent or empty) and, once rewritten, the blob URL that replaced it.    *)
(***************************************************************************)
Ref(u) == [uri |-> u, blob |-> NullUrl]
BlobRef(url) == [uri |-> <<"blob:">>, blob |-> url]

IsData(u) == StartsWith(u, <<"data:">>)

\* the guard without its data: test
IsRelativeDataToo(r) == r.uri # <<>> /\ r.blob = NullUrl

\* if (buffer.uri && !buffer.uri.startsWith('data:'))
IsRelative(r) == r.uri # <<>> /\ ~IsData(r.uri) /\ r.blob = NullUrl

SpecGlossName == "KHR_materials_pbrSpecularGlossiness"
DefaultRoughness == 5     \* 0.5, in tenths
DefaultMetallic == 0      \* 0.0

EmptyPbr ==
  [baseColorTexture |-> <<>>, baseColorFactor |-> <<>>,
   roughnessFactor |-> <<>>, metallicFactor |-> <<>>]

\* the forEach body building the container from the block alone
ConvertMaterialFromBlock(m) ==
  IF m.extensions # <<>> /\ m.extensions[1].specGloss # <<>>
  THEN LET sg == m.extensions[1].specGloss[1]
       IN  [m EXCEPT !.pbrMetallicRoughness =
                        <<[baseColorTexture |-> sg.diffuseTexture,
                           baseColorFactor |-> sg.diffuseFactor,
                           roughnessFactor |-> <<DefaultRoughness>>,
                           metallicFactor |-> <<DefaultMetallic>>]>>,
                     !.extensions = <<[m.extensions[1] EXCEPT !.specGloss = <<>>]>>]
  ELSE m

\* one material of json.materials through the forEach body
ConvertMaterial(m) ==
  IF m.extensions # <<>> /\ m.extensions[1].specGloss # <<>>
  THEN LET sg == m.extensions[1].specGloss[1]
           p0 == IF m.pbrMetallicRoughness = <<>> THEN EmptyPbr
                 ELSE m.pbrMetallicRoughness[1]
           p1 == IF sg.diffuseTexture # <<>>
                 THEN [p0 EXCEPT !.baseColorTexture = sg.diffuseTexture] ELSE p0
           p2 == IF sg.diffuseFactor # <<>>
                 THEN [p1 EXCEPT !.baseColorFactor = sg.diffuseFactor] ELSE p1
           p3 == IF p2.roughnessFactor = <<>>
                 THEN [p2 EXCEPT !.roughnessFactor = <<DefaultRoughness>>] ELSE p2
           p4 == IF p3.metallicFactor = <<>>
                 THEN [p3 EXCEPT !.metallicFactor = <<DefaultMetallic>>] ELSE p3
       IN  [m EXCEPT !.pbrMetallicRoughness = <<p4>>,
                     !.extensions = <<[m.extensions[1] EXCEPT !.specGloss = <<>>]>>]
  ELSE m

\* the clean-up removing only the first occurrence of the name
FilterExtFirst(list) ==
  IF \A i \in 1..Len(list) : list[i] # SpecGlossName THEN list
  ELSE LET k == Min({i \in 1..Len(list) : list[i] = SpecGlossName})
       IN  SubSeq(list, 1, k - 1) \o SubSeq(list, k + 1, Len(list))

\* list.filter(ext => ext !== 'KHR_materials_pbrSpecularGlossiness')
FilterExt(list) == SelectSeq(list, LAMBDA e : e # SpecGlossName)

\* the document handed on before the workaround has run
NormalizeSkipped(json) == json

\* the workaround block: only when json.materials is present
Normalize(json) ==
  IF json.materials = <<>> THEN json
  ELSE [json EXCEPT
          !.materials = <<[i \in 1..Len(json.materials[1]) |->
                              ConvertMaterial(json.materials[1][i])]>>,
          !.extensionsRequired =
              IF @ = <<>> THEN @ ELSE <<FilterExt(@[1])>>,
          !.extensionsUsed =
              IF @ = <<>> THEN @ ELSE <<FilterExt(@[1])>>]

(***************************************************************************)
(* patchGltfContent: the two forEach loops over buffers and images.        *)
(* PatchRefs walks refs from position i; k counts the URLs created so far  *)
(* by ingestion t.  A throw of getResource ends the walk.                  *)
(***************************************************************************)
RECURSIVE PatchRefs(_, _, _, _, _)
PatchRefs(t, refs, resources, i, acc) ==
  IF i > Len(refs) \/ acc.thrown THEN acc
  ELSE IF ~IsRelative(refs[i])
       THEN PatchRefs(t, refs, resources, i + 1,
                      [acc EXCEPT !.refs = Append(@, refs[i])])
       ELSE LET r == GetResource(refs[i].uri, resources)
                url == MkUrl(t, Len(acc.created) + 1)
            IN  CASE r.tag = "file" ->
                       PatchRefs(t, refs, resources, i + 1,
                         [acc EXCEPT !.refs = Append(@, BlobRef(url)),
                                     !.created = Append(@, [url |-> url, file |-> r.file])])
                  [] r.tag = "undefined" ->
                       PatchRefs(t, refs, resources, i + 1,
                         [acc EXCEPT !.refs = Append(@, refs[i]),
                                     !.missing = Append(@, refs[i].uri)])
                  [] OTHER -> [acc EXCEPT !.thrown = TRUE]

\* the result of patchGltfContent on a parsed document:
\*   thrown   getResource threw (the promise rejects)
\*   json     the document that is serialised into the Blob
\*   missing  missingResources
\*   created  the URLs made for resources, in creation order
\*   url      the URL of the document Blob (NullUrl when thrown)
PatchGltfContent(t, json, resources) ==
  LET b == PatchRefs(t, json.buffers, resources, 1,
                     [refs |-> <<>>, missing |-> <<>>, created |-> <<>>, thrown |-> FALSE])
      g == PatchRefs(t, json.images, resources, 1,
                     [refs |-> <<>>, missing |-> b.missing, created |-> b.created,
                      thrown |-> b.thrown])
      patched == [json EXCEPT !.buffers = b.refs, !.images = g.refs]
  IN  IF g.thrown
      THEN [thrown |-> TRUE, json |-> json, missing |-> g.missing,
            created |-> g.created, url |-> NullUrl]
      ELSE [thrown |-> FALSE, json |-> Normalize(patched), missing |-> g.missing,
            created |-> g.created, url |-> MkUrl(t, Len(g.created) + 1)]

(***************************************************************************)
(* The inputs: names, documents, archives and dropped batches.             *)
(***************************************************************************)
Bytes == "bytes"

A_GLB == <<"a", ".glb">>
UP_GLB == <<"A", ".GLB">>
A_GLTF == <<"a", ".gltf">>
A_BIN == <<"a", ".bin">>
A_PNG == <<"a", ".png">>
UP_PNG == <<"A", ".png">>
XA_PNG == <<"x", "a", ".png">>
A_ZIP == <<"a", ".zip">>

NoMaterials == <<>>

MkDoc(bufs, imgs, mats, req, used) ==
  [buffers |-> [i \in 1..Len(bufs) |-> Ref(bufs[i])],
   images |-> [i \in 1..Len(imgs) |-> Ref(imgs[i])],
   materials |-> mats, extensionsRequired |-> req, extensionsUsed |-> used]

EmptyDoc == MkDoc(<<>>, <<>>, <<>>, <<>>, <<>>)

\* a material in the legacy encoding, and one in the modern encoding
LegacyMaterial ==
  [name |-> "m1",
   extensions |-> <<[specGloss |-> <<[diffuseTexture |-> <<2>>, diffuseFactor |-> <<"red">>]>>,
                     other |-> FALSE]>>,
   pbrMetallicRoughness |-> <<>>]

ModernMaterial ==
  [name |-> "m2", extensions |-> <<>>,
   pbrMetallicRoughness |-> <<[EmptyPbr EXCEPT !.baseColorFactor = <<"blue">>,
                                                 !.roughnessFactor = <<9>>]>>]

LegacyMaterials == <<LegacyMaterial, ModernMaterial>>

X_A_PNG == <<"x", "/", "a", ".png">>

\* what JSON.parse makes of a .gltf file's text, by the file's data;
\* any other data is not parseable JSON
Docs ==
  [docA |-> MkDoc(<<A_BIN>>, <<X_A_PNG>>, <<LegacyMaterials>>,
                  <<>>, <<<<SpecGlossName, "KHR_texture_transform">>>>),
   docZ |-> MkDoc(<<A_BIN>>, <<<<"%zz", ".png">>>>, NoMaterials, <<>>, <<>>)]

\* a ZIP entry: its relative path, JSZip's dir flag, and its payload
\* ("bad": the entry's async('blob') rejects)
Entry(p, d) == [path |-> p, dir |-> FALSE, data |-> d]
DirEntry(p) == [path |-> p, dir |-> TRUE, data |-> "none"]

\* what JSZip.loadAsync makes of a .zip file, by the file's data; any
\* other data is not a valid container
Archives ==
  [arcFull |-> <<DirEntry(<<"x", "/">>), Entry(<<"x", "/", "a", ".gltf">>, "docA"),
                 Entry(<<"x", "/", "a", ".bin">>, Bytes), Entry(X_A_PNG, Bytes)>>,
   arcTwo |-> <<Entry(<<"x", "/", "a", ".glb">>, "g1"), Entry(<<"A", "/", "a", ".glb">>, "g2")>>,
   arcBad |-> <<Entry(A_GLB, Bytes), Entry(A_PNG, "bad")>>,
   arcNoModel |-> <<Entry(X_A_PNG, Bytes)>>,
   arcEmpty |-> <<DirEntry(<<"x", "/">>)>>]

\* the batches a user drops or picks
Batches ==
  { <<>>,
    <<MkFile(A_GLB, Bytes)>>,
    <<MkFile(A_GLTF, "docA"), MkFile(A_BIN, Bytes), MkFile(A_PNG, Bytes)>>,
    <<MkFile(A_GLTF, "docA")>>,
    <<MkFile(A_GLTF, "docA"), MkFile(UP_GLB, Bytes)>>,
    <<MkFile(A_GLTF, Bytes), MkFile(A_BIN, Bytes)>>,
    <<MkFile(A_GLTF, "docZ"), MkFile(A_BIN, Bytes)>>,
    <<MkFile(A_PNG, Bytes)>>,
    <<MkFile(A_ZIP, Bytes)>> }
  \cup { <<MkFile(A_ZIP, a)>> : a \in DOMAIN Archives }

(***************************************************************************)
(* The state.                                                              *)
(***************************************************************************)
VARIABLES
  tasks,               \* the processFiles calls, by order of initiation
  isLoading,           \* each ModelUploader's isLoading
  modelUrl,            \* the page's state
  modelName,
  textures,
  textureApplied,
  availableMaterials,
  blobs,               \* the URLs createObjectURL returned, with the Blob of each
  revoked,             \* the URLs passed to revokeObjectURL
  pJson,               \* patchGltfContent alone: its document,
  pResources,          \*   its Map,
  pDone,               \*   whether it has run,
  pOut,                \*   and what it returned
  viewerModel,         \* ProductViewer: the model its model-viewer holds,
  canSetTexture,       \*   whether materials offer setBaseColorTexture,
  calls,               \*   the applyTexture calls,
  viewerError,         \*   and the src whose load it reported as failed
  cpMounted,           \* ColorPicker: whether the open panel renders it,
  cpMaterials,         \*   its materials state,
  selectedMaterial,    \*   its selectedMaterial (<<>>: null, <<name>>),
  cpTimers,            \*   the pending setTimeout(loadMaterials, 100),
  colorCall            \*   and the last applyColor call

pageVars == <<modelUrl, modelName, textures, textureApplied, availableMaterials>>
patchVars == <<pJson, pResources, pDone, pOut>>
ingestVars == <<tasks, isLoading>>
urlVars == <<blobs, revoked>>
viewerVars == <<viewerModel, canSetTexture, calls, viewerError>>
colorVars == <<cpMounted, cpMaterials, selectedMaterial, cpTimers, colorCall>>
vars == <<ingestVars, urlVars, pageVars, patchVars, viewerVars, colorVars>>

MaxIngestions == 2
Tasks == 1..MaxIngestions
\* The page mounts a ModelUploader in the sidebar (shown on large
\* viewports) and one in the MobileDrawer (shown on small ones); the user
\* works with the one the viewport shows.
Uploaders == {"sidebar"}

IdleTask ==
  [pc |-> "idle", uploader |-> "sidebar", captured |-> NullUrl, files |-> <<>>,
   archive |-> "none", pending |-> {}, extracted |-> <<>>,
   url |-> NullUrl, name |-> <<>>, missing |-> <<>>, alerts |-> <<>>,
   outcome |-> "none"]

\* the page and its uploaders after the first render
InitPage ==
  /\ tasks = [t \in Tasks |-> IdleTask]
  /\ isLoading = [u \in Uploaders |-> FALSE]
  /\ modelUrl = NullUrl
  /\ modelName = <<>>
  /\ textures = <<>>
  /\ textureApplied = FALSE
  /\ availableMaterials = <<>>
  /\ blobs = <<>>
  /\ revoked = {}

NoPatch ==
  /\ pJson = EmptyDoc
  /\ pResources = <<>>
  /\ pDone = FALSE
  /\ pOut = PatchGltfContent(0, EmptyDoc, <<>>)

\* a model-viewer material: its name, the texture set on it (NullUrl:
\* the model's own), its base-color factor, and whether its
\* pbrMetallicRoughness.baseColorTexture is an object
Material(n, info) == [name |-> n, texture |-> NullUrl, factor |-> "own", info |-> info]

NoModel == [src |-> NullUrl, materials |-> <<>>]

MaxCalls == 2
Calls == 1..MaxCalls

\* model: while createTexture is pending, the src of the model the viewer
\* held when the call began
IdleCall ==
  [pc |-> "idle", url |-> NullUrl, slot |-> <<>>, result |-> "none", model |-> NullUrl]

NoViewer ==
  /\ viewerModel = NoModel
  /\ canSetTexture = TRUE
  /\ calls = [c \in Calls |-> IdleCall]
  /\ viewerError = NullUrl

\* applyColor not called yet
NoColorCall == [n |-> 0, name |-> <<>>, color |-> "none", outcome |-> "none"]

\* the ColorPicker sits in the sidebar and in the MobileDrawer, which
\* render their content only while shown: here it is not rendered
NoColorPicker ==
  /\ cpMounted = FALSE
  /\ cpMaterials = <<>>
  /\ selectedMaterial = <<>>
  /\ cpTimers = <<>>
  /\ colorCall = NoColorCall

Init == InitPage /\ NoPatch /\ NoViewer /\ NoColorPicker

(***************************************************************************)
(* processFiles                                                            *)
(***************************************************************************)
\* Array.prototype.find: the first element that satisfies the test, as
\* its index (0: undefined)
FindIndex(files, Test(_)) ==
  LET hits == {i \in 1..Len(files) : Test(files[i])}
  IN  IF hits = {} THEN 0 ELSE Min(hits)

HasExt(f, ext) == EndsWith(ToLowerCase(f.name), <<ext>>)
IsZip(f) == HasExt(f, ".zip")

\* the test without toLowerCase
IsGlbCaseSensitive(f) == EndsWith(f.name, <<".glb">>)

IsGlb(f) == HasExt(f, ".glb")
IsGltf(f) == HasExt(f, ".gltf")

\* URL.createObjectURL
CreateObjectURL(url, blob) == blobs' = blobs @@ (url :> blob)

DocBlob(json) == [kind |-> "doc", file |-> NoFile, json |-> json]
FileBlobOf(f) == [kind |-> "file", file |-> f, json |-> EmptyDoc]

\* the call returns: the extraction's locals are gone; the batch it
\* classified, what it showed and what it published are kept
Return(cur, outcome) ==
  [cur EXCEPT !.pc = "done", !.outcome = outcome, !.pending = {}, !.extracted = <<>>]

\* the catch blocks: one alert, setIsLoading(false), return
Catch(cur, message, outcome) ==
  Return([cur EXCEPT !.alerts = Append(@, message)], outcome)

\* processFiles(files) up to its first await, for the call that task t
\* stands for; cur is the task as the caller leaves it
ProcessFiles(t, cur, files) ==
  LET zip == FindIndex(files, IsZip)
      glb == FindIndex(files, IsGlb)
      gltf == FindIndex(files, IsGltf)
      c == [cur EXCEPT !.files = files, !.pending = {}, !.extracted = <<>>]
  IN  IF files = <<>>
      THEN /\ tasks' = [tasks EXCEPT ![t] = Return(c, "empty")]
           /\ UNCHANGED <<isLoading, blobs>>
      ELSE IF zip # 0
      THEN /\ tasks' = [tasks EXCEPT ![t] =
                          [c EXCEPT !.pc = "zipLoad", !.archive = files[zip].data]]
           /\ isLoading' = [isLoading EXCEPT ![c.uploader] = TRUE]
           /\ UNCHANGED blobs
      ELSE IF glb = 0 /\ gltf = 0
      THEN /\ tasks' = [tasks EXCEPT ![t] =
                          Return([c EXCEPT !.alerts = Append(@, "noModel")], "noModel")]
           /\ UNCHANGED <<isLoading, blobs>>
      ELSE IF glb # 0
      THEN /\ tasks' = [tasks EXCEPT ![t] =
                          [c EXCEPT !.pc = "timer", !.url = MkUrl(t, 1),
                                    !.name = files[glb].name]]
           /\ isLoading' = [isLoading EXCEPT ![c.uploader] = TRUE]
           /\ CreateObjectURL(MkUrl(t, 1), FileBlobOf(files[glb]))
      ELSE /\ tasks' = [tasks EXCEPT ![t] =
                          [c EXCEPT !.pc = "readText", !.name = files[gltf].name]]
           /\ isLoading' = [isLoading EXCEPT ![c.uploader] = TRUE]
           /\ UNCHANGED blobs

\* handleDrop / handleFileSelect: the user hands a batch to an uploader.
\* The call closes over the page's handleModelSelect of the current
\* render, and so over the current modelUrl.
StartIngestion(t, u, files) ==
  /\ tasks[t].pc = "idle"
  /\ IF t = 1 THEN TRUE ELSE tasks[t - 1].pc # "idle"
  /\ ProcessFiles(t, [tasks[t] EXCEPT !.uploader = u, !.captured = modelUrl], files)
  /\ UNCHANGED <<revoked, pageVars, patchVars, viewerVars, colorVars>>

NonDirEntries(a) == {i \in 1..Len(Archives[a]) : ~Archives[a][i].dir}

\* zip.loadAsync settles: the container is valid and zipContent.forEach
\* starts one extraction per non-directory entry, or the catch block runs
ZipLoaded(t) ==
  LET cur == tasks[t]
  IN  /\ cur.pc = "zipLoad"
      /\ IF cur.archive \in DOMAIN Archives
         THEN /\ tasks' = [tasks EXCEPT ![t] =
                             [cur EXCEPT !.pc = "extract",
                                         !.pending = NonDirEntries(cur.archive),
                                         !.extracted = <<>>]]
              /\ UNCHANGED isLoading
         ELSE /\ tasks' = [tasks EXCEPT ![t] = Catch(cur, "extractFailed", "zipFailed")]
              /\ isLoading' = [isLoading EXCEPT ![cur.uploader] = FALSE]
      /\ UNCHANGED <<blobs, revoked, pageVars, patchVars, viewerVars, colorVars>>

\* relativePath.split('/').pop() || relativePath
EntryFilename(path) ==
  IF SplitPop(path, {"/"}) = <<>> THEN path ELSE SplitPop(path, {"/"})

\* one zipEntry.async('blob') resolves: its then-callback pushes the File
EntryExtracted(t, i) ==
  LET cur == tasks[t]
      e == Archives[cur.archive][i]
  IN  /\ cur.pc = "extract"
      /\ i \in cur.pending
      /\ e.data # "bad"
      /\ tasks' = [tasks EXCEPT ![t] =
                     [cur EXCEPT !.pending = @ \ {i},
                                 !.extracted = Append(@, MkFile(EntryFilename(e.path), e.data))]]
      /\ UNCHANGED <<isLoading, blobs, revoked, pageVars, patchVars, viewerVars, colorVars>>

\* one zipEntry.async('blob') rejects: Promise.all rejects and the catch
\* block runs (what the other extractions push later is never read)
EntryFailed(t, i) ==
  LET cur == tasks[t]
  IN  /\ cur.pc = "extract"
      /\ i \in cur.pending
      /\ Archives[cur.archive][i].data = "bad"
      /\ tasks' = [tasks EXCEPT ![t] = Catch(cur, "extractFailed", "zipFailed")]
      /\ isLoading' = [isLoading EXCEPT ![cur.uploader] = FALSE]
      /\ UNCHANGED <<blobs, revoked, pageVars, patchVars, viewerVars, colorVars>>

\* Promise.race in place of Promise.all
AnyExtracted(cur) == cur.extracted # <<>> \/ cur.pending = {}

\* Promise.all(extractionPromises) resolves when no extraction is pending
AllExtracted(cur) == cur.pending = {}

\* await Promise.all(...) returns: the recursive processFiles(extractedFiles)
ExtractionJoined(t) ==
  LET cur == tasks[t]
  IN  /\ cur.pc = "extract"
      /\ AllExtracted(cur)
      /\ ProcessFiles(t, cur, cur.extracted)
      /\ UNCHANGED <<revoked, pageVars, patchVars, viewerVars, colorVars>>

\* one alert per missing file
MissingAlertsEach(missing) == [i \in 1..Len(missing) |-> "missingFiles"]

\* if (result.missingResources.length > 0) alert(... joined names ...)
MissingAlerts(missing) == IF missing # <<>> THEN <<"missingFiles">> ELSE <<>>

\* the blobs a patch result adds: one per rewritten reference and, when
\* nothing threw, the document's
PatchBlobs(r) ==
  LET n == Len(r.created)
      res == [u \in {r.created[i].url : i \in 1..n} |->
                FileBlobOf(r.created[CHOOSE i \in 1..n : r.created[i].url = u].file)]
  IN  IF r.thrown THEN res ELSE res @@ (r.url :> DocBlob(r.json))

\* gltfFile.text() resolves: JSON.parse, the patch, the warning and the
\* setTimeout, or the catch block
TextRead(t) ==
  LET cur == tasks[t]
      gltfFile == cur.files[FindIndex(cur.files, IsGltf)]
  IN  /\ cur.pc = "readText"
      /\ IF gltfFile.data \notin DOMAIN Docs
         THEN /\ tasks' = [tasks EXCEPT ![t] = Catch(cur, "processFailed", "processFailed")]
              /\ isLoading' = [isLoading EXCEPT ![cur.uploader] = FALSE]
              /\ UNCHANGED blobs
         ELSE LET r == PatchGltfContent(t, Docs[gltfFile.data], ResourceMap(cur.files))
              IN  /\ blobs' = blobs @@ PatchBlobs(r)
                  /\ IF r.thrown
                     THEN /\ tasks' = [tasks EXCEPT ![t] =
                                         Catch(cur, "processFailed", "processFailed")]
                          /\ isLoading' = [isLoading EXCEPT ![cur.uploader] = FALSE]
                     ELSE /\ tasks' = [tasks EXCEPT ![t] =
                                         [cur EXCEPT !.pc = "timer", !.url = r.url,
                                                     !.missing = r.missing,
                                                     !.alerts = @ \o MissingAlerts(r.missing)]]
                          /\ UNCHANGED isLoading
      /\ UNCHANGED <<revoked, pageVars, patchVars, viewerVars, colorVars>>

(***************************************************************************)
(* The page: handleModelSelect                                             *)
(***************************************************************************)
\* handleModelSelect(url, fileName) of the render whose modelUrl is old
HandleModelSelect(old, url, fileName) ==
  /\ revoked' = IF old # NullUrl THEN revoked \cup {old} ELSE revoked
  /\ modelUrl' = url
  /\ modelName' = fileName
  /\ textures' = <<>>
  /\ textureApplied' = FALSE
  /\ availableMaterials' = <<>>

\* the setTimeout callback: onModelSelect(url, name); setIsLoading(false)
TimerFired(t) ==
  LET cur == tasks[t]
  IN  /\ cur.pc = "timer"
      /\ HandleModelSelect(cur.captured, cur.url, cur.name)
      /\ tasks' = [tasks EXCEPT ![t] = Return(cur, "published")]
      /\ isLoading' = [isLoading EXCEPT ![cur.uploader] = FALSE]
      /\ UNCHANGED <<blobs, patchVars, viewerVars, colorVars>>

Next ==
  \/ \E t \in Tasks, u \in Uploaders, files \in Batches : StartIngestion(t, u, files)
  \/ \E t \in Tasks : ZipLoaded(t)
  \/ \E t \in Tasks, i \in 1..4 : EntryExtracted(t, i)
  \/ \E t \in Tasks, i \in 1..4 : EntryFailed(t, i)
  \/ \E t \in Tasks : ExtractionJoined(t)
  \/ \E t \in Tasks : TextRead(t)
  \/ \E t \in Tasks : TimerFired(t)

Spec == Init /\ [][Next]_vars

\* what happens to call t without the user: the promises of the archive
\* settle and the timer fires
Settles(t) ==
  \/ ZipLoaded(t)
  \/ \E i \in 1..4 : EntryExtracted(t, i)
  \/ \E i \in 1..4 : EntryFailed(t, i)
  \/ ExtractionJoined(t)
  \/ TimerFired(t)

\* gltfFile.text() settles: TextRead(t) is enabled exactly while the call
\* waits for the text and is the only step that ends the wait, so this is
\* weak fairness of TextRead(t)
TextSettles(t) == []<>(tasks[t].pc # "readText")

\* the ingestion where every pending promise and timer is served
SpecLive == Spec /\ \A t \in Tasks : WF_vars(Settles(t)) /\ TextSettles(t)

(***************************************************************************)
(* Properties of the ingestion (checked under Spec).                       *)
(***************************************************************************)
Published(t) == tasks[t].outcome = "published"

\* C1: the page always shows the most recently initiated ingestion among
\* those that have completed: once a later ingestion has been published,
\* the completion of an earlier one never replaces it.
C1_LatestInitiatedShown ==
  (\E t \in Tasks : Published(t)) =>
     modelUrl = tasks[Max({t \in Tasks : Published(t)})].url

\* C5: a .gltf ingestion with unresolved references raises exactly one
\* warning and still goes on to publish the URL of the patched document:
\* it waits for its timer or has published, and never ends as a failure.
C5_MissingStillPublished ==
  \A t \in Tasks :
    tasks[t].missing # <<>> =>
      /\ tasks[t].alerts = <<"missingFiles">>
      /\ tasks[t].pc \in {"timer", "done"}
      /\ tasks[t].pc = "done" => Published(t)
      /\ tasks[t].url \in DOMAIN blobs
      /\ blobs[tasks[t].url].kind = "doc"
      /\ Published(t) /\ (\A n \in Tasks : n # t => ~Published(n)) =>
            modelUrl = tasks[t].url

\* an ingestion with two unresolved references that has been published
C5_Witness ==
  \E t \in Tasks :
    /\ Len(tasks[t].missing) = 2
    /\ Published(t)
    /\ modelUrl = tasks[t].url

\* the ingestion ended in a fatal failure: the ZIP could not be loaded,
\* its batch held no .glb/.gltf file, or its .gltf was not parseable
FatalFailure(t) ==
  /\ tasks[t].pc = "done"
  /\ \/ tasks[t].outcome \in {"zipFailed", "noModel", "processFailed"}
     \/ tasks[t].outcome = "empty" /\ tasks[t].archive # "none"

\* C6: an ingestion that fails fatally never reaches onModelSelect, leaves
\* the page's asset state as it was, and shows exactly one message.
C6_FatalFailureOneMessage ==
  /\ [](\A t \in Tasks :
         FatalFailure(t) =>
           /\ Len(tasks[t].alerts) = 1
           /\ tasks[t].url = NullUrl
           /\ modelUrl = NullUrl \/ modelUrl.t # t)
  /\ [][\A t \in Tasks :
          ~FatalFailure(t) /\ FatalFailure(t)' => UNCHANGED pageVars]_vars

\* the batch the classifier was given holds a .glb file, in any case
ContainsGlb(files) ==
  \E i \in 1..Len(files) :
     Len(files[i].name) > 0 /\ LowerTok(files[i].name[Len(files[i].name)]) = ".glb"

ContainsZip(files) ==
  \E i \in 1..Len(files) :
     Len(files[i].name) > 0 /\ LowerTok(files[i].name[Len(files[i].name)]) = ".zip"

\* the blob URLs ingestion t has created
UrlsOf(t) == {u \in DOMAIN blobs : u.t = t}

\* C7: when the classified batch holds a .glb file, the ingestion creates
\* and publishes exactly one URL, that of a .glb file of the batch, patches
\* no document and shows no warning, whether or not a .gltf is present.
C7_GlbTakesPrecedence ==
  \A t \in Tasks :
    tasks[t].pc # "idle" /\ ContainsGlb(tasks[t].files) /\ ~ContainsZip(tasks[t].files) =>
      /\ tasks[t].pc \in {"timer", "done"}
      /\ tasks[t].pc = "done" => Published(t)
      /\ UrlsOf(t) = {tasks[t].url}
      /\ blobs[tasks[t].url].kind = "file"
      /\ \E i \in 1..Len(tasks[t].files) :
            /\ blobs[tasks[t].url].file = tasks[t].files[i]
            /\ ContainsGlb(<<tasks[t].files[i]>>)
            /\ tasks[t].name = tasks[t].files[i].name
      /\ tasks[t].alerts = <<>>
      /\ tasks[t].missing = <<>>

\* a published batch that held both a .gltf and a .GLB
C7_Witness ==
  \E t \in Tasks :
    /\ Published(t)
    /\ modelUrl = tasks[t].url
    /\ ContainsGlb(tasks[t].files)
    /\ \E i \in 1..Len(tasks[t].files) : tasks[t].files[i].name = A_GLTF
    /\ tasks[t].name = UP_GLB

\* what an ingestion made of its input: the name it publishes, the
\* missing list, and the file behind each URL it created, in order
Settled(t) == tasks[t].pc \in {"timer", "done"} /\ tasks[t].outcome # "zipFailed"

OutcomeOf(t) ==
  [outcome |-> IF tasks[t].pc = "timer" THEN "published" ELSE tasks[t].outcome,
   name |-> tasks[t].name,
   missing |-> tasks[t].missing,
   files |-> [k \in 1..Cardinality(UrlsOf(t)) |-> blobs[MkUrl(t, k)].file]]

\* C8: two ingestions of the same archive end the same way (primary
\* model, the file behind every reference, missing list), whatever the
\* order in which their extractions completed.
C8_OrderIndependent ==
  \A t1, t2 \in Tasks :
    /\ Settled(t1) /\ Settled(t2)
    /\ tasks[t1].archive # "none"
    /\ tasks[t1].archive = tasks[t2].archive
    => OutcomeOf(t1) = OutcomeOf(t2)

\* the classifier has been given the files extracted from the archive
Classified(t) ==
  /\ tasks[t].archive \in DOMAIN Archives
  /\ \/ tasks[t].pc \in {"readText", "timer"}
     \/ tasks[t].pc = "done" /\ tasks[t].outcome # "zipFailed"

\* the text after the last '/'
AfterLastSlash(path) ==
  LET at == {i \in 1..Len(path) : path[i] = "/"}
  IN  IF at = {} THEN path ELSE SubSeq(path, Max(at) + 1, Len(path))

\* C9: the files of a ZIP are classified only once every non-directory
\* entry has been extracted; a directory entry yields no file, and every
\* file is named by its entry's basename.
C9_ClassifiedAfterAllExtracted ==
  \A t \in Tasks :
    /\ tasks[t].pc = "extract" =>
          /\ Len(tasks[t].extracted) + Cardinality(tasks[t].pending)
                = Cardinality(NonDirEntries(tasks[t].archive))
          /\ \A j \in 1..Len(tasks[t].extracted) :
                \E i \in NonDirEntries(tasks[t].archive) \ tasks[t].pending :
                   LET e == Archives[tasks[t].archive][i]
                   IN  tasks[t].extracted[j] = MkFile(AfterLastSlash(e.path), e.data)
    /\ Classified(t) =>
          LET a == Archives[tasks[t].archive]
          IN  /\ Len(tasks[t].files) = Cardinality({i \in 1..Len(a) : ~a[i].dir})
              /\ \A i \in 1..Len(a) :
                    ~a[i].dir =>
                       \E j \in 1..Len(tasks[t].files) :
                          tasks[t].files[j] = MkFile(AfterLastSlash(a[i].path), a[i].data)
              /\ \A j \in 1..Len(tasks[t].files) :
                    \E i \in 1..Len(a) :
                       /\ ~a[i].dir
                       /\ tasks[t].files[j] = MkFile(AfterLastSlash(a[i].path), a[i].data)

\* the archive with a directory entry and three files, classified
C9_Witness ==
  \E t \in Tasks :
    /\ tasks[t].archive = "arcFull"
    /\ Classified(t)
    /\ Len(tasks[t].files) = 3
    /\ Published(t)

(***************************************************************************)
(* patchGltfContent on its own: every document and resource Map of the     *)
(* bounded sets below, patched once.                                       *)
(***************************************************************************)
SeqsUpTo(S, n) == UNION {[1..k -> S] : k \in 0..n}

X_SLASH == <<"x", "/">>
ESC_PNG == <<"%41", ".png">>
BAD_PNG == <<"%zz", ".png">>
DATA_URI == <<"data:", "a">>
WIN_BIN == <<"x", "\\", "a", ".bin">>

PatchImageUris == {A_PNG, X_A_PNG, X_SLASH, ESC_PNG, BAD_PNG, DATA_URI}
PatchBufferUris == {<<>>, A_BIN, WIN_BIN}
PoolFiles == {MkFile(A_PNG, Bytes), MkFile(UP_PNG, Bytes), MkFile(XA_PNG, Bytes),
              MkFile(A_BIN, Bytes)}

\* the forms of the legacy block of a material: no extensions, extensions
\* without the block, the block with and without its two members
PatchExtensions ==
  {<<>>, <<[specGloss |-> <<>>, other |-> TRUE]>>}
    \cup {<<[specGloss |-> <<[diffuseTexture |-> t, diffuseFactor |-> f]>>,
            other |-> FALSE]>> : t \in {<<>>, <<2>>}, f \in {<<>>, <<"red">>}}

\* the forms of pbrMetallicRoughness: absent, or with explicit members
PatchPbrs ==
  {<<>>} \cup
  {<<[baseColorTexture |-> t, baseColorFactor |-> <<>>,
      roughnessFactor |-> r, metallicFactor |-> mt]>> :
     t \in {<<>>, <<1>>}, r \in {<<>>, <<9>>}, mt \in {<<>>, <<10>>}}

PatchMaterials ==
  {[name |-> "m1", extensions |-> e, pbrMetallicRoughness |-> p] :
     e \in PatchExtensions, p \in PatchPbrs}

\* the forms of extensionsRequired and extensionsUsed
PatchExtLists ==
  {<<>>, <<<<SpecGlossName>>>>,
   <<<<"KHR_texture_transform", SpecGlossName, SpecGlossName>>>>}

\* documents with one buffer and one image and every form of material
MaterialDocs ==
  {MkDoc(<<A_BIN>>, <<A_PNG>>, <<<<m, ModernMaterial>>>>, e, e) :
     m \in PatchMaterials, e \in PatchExtLists}

\* documents without a materials array whose lists name the extension
BareDocs ==
  {MkDoc(<<A_BIN>>, <<A_PNG>>, NoMaterials, e, e) : e \in PatchExtLists}

PatchDocs ==
  {MkDoc(b, i, m, <<>>, IF m = <<>> THEN <<>> ELSE <<<<SpecGlossName>>>>) :
     b \in SeqsUpTo(PatchBufferUris, MaxBuffers),
     i \in SeqsUpTo(PatchImageUris, MaxImages),
     m \in {NoMaterials, <<LegacyMaterials>>}}
    \cup MaterialDocs \cup BareDocs

\* processFiles builds the Map from the whole batch, the .gltf included
PatchPools ==
  {ResourceMap(<<MkFile(A_GLTF, "doc")>> \o fs) : fs \in SeqsUpTo(PoolFiles, MaxPool)}

InitPatch ==
  /\ InitPage
  /\ NoViewer
  /\ NoColorPicker
  /\ pJson \in PatchDocs
  /\ pResources \in PatchPools
  /\ pDone = FALSE
  /\ pOut = PatchGltfContent(0, EmptyDoc, <<>>)

\* const result = await patchGltfContent(gltfFile, resourceMap)
RunPatch ==
  /\ ~pDone
  /\ pDone' = TRUE
  /\ pOut' = PatchGltfContent(1, pJson, pResources)
  /\ UNCHANGED <<pJson, pResources, ingestVars, urlVars, pageVars, viewerVars, colorVars>>

NextPatch == RunPatch

SpecPatch == InitPatch /\ [][NextPatch]_vars

(***************************************************************************)
(* Properties of patchGltfContent (checked under SpecPatch).               *)
(***************************************************************************)
\* the references of a document, buffers first
AllRefs(json) == json.buffers \o json.images

PoolKeys == {pResources[i].key : i \in 1..Len(pResources)}

\* the reference's URL-decoded basename
Basename(u) == SplitPop(DecodeURIComponent(u), {"/", "\\"})

\* a uri that is present and not a data: reference
RelativeUri(u) == u # <<>> /\ ~StartsWith(u, <<"data:">>)

RefCount == Len(AllRefs(pJson))
OrigUri(i) == AllRefs(pJson)[i].uri
Patched(i) == AllRefs(pOut.json)[i]
Rewritten(i) == Patched(i).blob # NullUrl
ReportedMissing(u) == \E j \in 1..Len(pOut.missing) : pOut.missing[j] = u

\* the file whose blob URL is url
FileOfUrl(url) ==
  pOut.created[CHOOSE j \in 1..Len(pOut.created) : pOut.created[j].url = url].file

Tier1(u) == {k \in PoolKeys : k = u}
Tier2(u) == {k \in PoolKeys : Basename(u) # <<>> /\ k = Basename(u)}
Tier3(u) == {k \in PoolKeys : Basename(u) # <<>>
                                /\ ToLowerCase(k) = ToLowerCase(Basename(u))}
Tier4(u) == {k \in PoolKeys : Basename(u) # <<>> /\ EndsWith(k, Basename(u))}

EarliestTier(u) ==
  IF Tier1(u) # {} THEN Tier1(u)
  ELSE IF Tier2(u) # {} THEN Tier2(u)
  ELSE IF Tier3(u) # {} THEN Tier3(u)
  ELSE Tier4(u)

\* C2: every relative reference resolves to the file of the earliest
\* matching tier: exact key, then case-sensitive basename, then
\* case-insensitive basename, then a key ending with the basename; so a
\* key equal to the basename always beats one that only ends with it,
\* whatever the insertion order of the pool.  (Stated for references
\* whose basename is not empty and whose escapes decode.)
C2_EarliestTierWins ==
  pDone /\ ~pOut.thrown =>
    \A i \in 1..RefCount :
      LET u == OrigUri(i)
      IN  RelativeUri(u) /\ ~DecodeThrows(u) /\ EarliestTier(u) # {} =>
            Rewritten(i) /\ FileOfUrl(Patched(i).blob).name \in EarliestTier(u)

\* what the claim C3 takes for the condition of a resolution
ClaimedMatch(u) ==
  \E k \in PoolKeys :
     \/ k = u
     \/ ToLowerCase(k) = ToLowerCase(Basename(u))
     \/ EndsWith(k, Basename(u))

\* the condition with the empty basename set apart
Match(u) ==
  \E k \in PoolKeys :
     \/ k = u
     \/ /\ Basename(u) # <<>>
        /\ \/ ToLowerCase(k) = ToLowerCase(Basename(u))
           \/ EndsWith(k, Basename(u))

RECURSIVE LeftUnchanged(_)
LeftUnchanged(i) ==
  IF i > RefCount THEN <<>>
  ELSE IF RelativeUri(OrigUri(i)) /\ Patched(i) = AllRefs(pJson)[i]
       THEN <<OrigUri(i)>> \o LeftUnchanged(i + 1)
       ELSE LeftUnchanged(i + 1)

MaxSelections == 2
MaxTimers == 2
MaxColorCalls == 1

\* material names and slot names, as token strings
LOGO_1 == <<"logo", "_1">>
LOGO_2 == <<"logo", "_2">>
LOGO_3 == <<"logo", "_3">>
BODY == <<"Body">>
LOGO_UP == <<"LOGO">>

\* the material lists a loaded model may report, in the viewer's order
ShirtMaterials ==
  <<Material(BODY, TRUE), Material(<<"logo", "_front", "_L">>, TRUE),
    Material(<<"logo", "_back">>, TRUE)>>
UpperMaterials ==
  <<Material(<<"LOGO", ".001">>, TRUE), Material(<<"logo", ".002">>, TRUE)>>
DecalMaterials ==
  <<Material(<<"decals", "_1">>, TRUE), Material(<<"logo", ".001">>, TRUE)>>
PlainMaterials == <<Material(<<>>, TRUE), Material(BODY, FALSE)>>

MaterialLists == {ShirtMaterials, UpperMaterials, DecalMaterials, PlainMaterials}

\* the length of the longest of them
MaxMaterials == Max({Len(l) : l \in MaterialLists})

\* the slot TextureUploader passes: a standard slot id or a material name
Slots == {LOGO_1, LOGO_2, LOGO_3, BODY, LOGO_UP}

\* materialTargetMap: the slots with a static mapping, and their fragments
MappedSlots == {LOGO_1, LOGO_2, LOGO_3}

MaterialTargetMap(slotName) ==
  CASE slotName = LOGO_1 ->
         << <<"logo", ".001">>, <<"logo", "_1">>, <<"logo", "_front">>, <<"decals", "_1">> >>
    [] slotName = LOGO_2 ->
         << <<"logo", ".002">>, <<"logo", "_2">>, <<"logo", "_back">>, <<"decals", "_2">> >>
    [] slotName = LOGO_3 ->
         << <<"logo", ".003">>, <<"logo", "_3">>, <<"logo", "_sleeve">>, <<"decals", "_3">> >>

\* materialTargetMap[slotName] || [slotName]
TargetNames(slotName) ==
  IF slotName \in MappedSlots THEN MaterialTargetMap(slotName) ELSE <<slotName>>

NameMatchesCaseSensitive(m, targetNames) ==
  \E k \in 1..Len(targetNames) : Includes(m.name, targetNames[k])

\* targetNames.some(name => m.name.toLowerCase().includes(name.toLowerCase()))
NameMatches(m, targetNames) ==
  \E k \in 1..Len(targetNames) :
     Includes(ToLowerCase(m.name), ToLowerCase(targetNames[k]))

\* materials.find(...): the index of the material found, 0 for undefined
FindTarget(materials, slotName) ==
  LET hits == {i \in 1..Len(materials) : NameMatches(materials[i], TargetNames(slotName))}
  IN  IF hits = {} THEN 0 ELSE Min(hits)

\* setBaseColorTexture and setBaseColorFactor([1, 1, 1, 1]) where the
\* material offers them, else baseColorTexture.setTexture where it is set
SetTexture(m, url) ==
  IF canSetTexture THEN [m EXCEPT !.texture = url, !.factor = "white"]
  ELSE IF m.info THEN [m EXCEPT !.texture = url]
  ELSE m

\* materialNames: the names of the model's materials, .filter(Boolean)
MaterialNames(materials) ==
  LET RECURSIVE Names(_)
      Names(i) ==
        IF i > Len(materials) THEN <<>>
        ELSE IF materials[i].name = <<>> THEN Names(i + 1)
        ELSE <<materials[i].name>> \o Names(i + 1)
  IN  Names(1)

\* a ModelUploader publishes a model: handleModelSelect, and the viewer's
\* src changes; model-viewer keeps or drops the model it held
SelectModel(keep) ==
  /\ modelUrl.t < MaxSelections
  /\ LET url == MkUrl(modelUrl.t + 1, 1)
     IN  /\ CreateObjectURL(url, FileBlobOf(MkFile(A_GLB, Bytes)))
         /\ HandleModelSelect(modelUrl, url, A_GLB)
  /\ viewerModel' = IF keep THEN viewerModel ELSE NoModel
  /\ UNCHANGED <<ingestVars, patchVars, canSetTexture, calls, viewerError, colorVars>>

\* the viewer's load event.  ProductViewer's handleLoad calls
\* onMaterialsLoaded(materialNames); ColorPicker's handleLoad sets the
\* timer of loadMaterials, which holds the selectedMaterial of its render
HandleLoad(materials) ==
  /\ modelUrl # NullUrl
  /\ viewerModel.src # modelUrl
  /\ viewerError # modelUrl
  /\ cpMounted => Len(cpTimers) < MaxTimers
  /\ viewerModel' = [src |-> modelUrl, materials |-> materials]
  /\ availableMaterials' = MaterialNames(materials)
  /\ cpTimers' = IF cpMounted THEN Append(cpTimers, selectedMaterial) ELSE cpTimers
  /\ UNCHANGED <<ingestVars, urlVars, patchVars, canSetTexture, calls, viewerError,
                 modelUrl, modelName, textures, textureApplied,
                 cpMounted, cpMaterials, selectedMaterial, colorCall>>

\* the viewer's error event while it loads the page's modelUrl:
\* handleError logs it
HandleError ==
  /\ modelUrl # NullUrl
  /\ viewerModel.src # modelUrl
  /\ viewerError # modelUrl
  /\ viewerError' = modelUrl
  /\ UNCHANGED <<ingestVars, urlVars, patchVars, pageVars, viewerModel,
                 canSetTexture, calls, colorVars>>

\* the readiness test taking an element with a src for a loaded model
HasModelOrSrc == viewerModel.src # NullUrl \/ modelUrl # NullUrl

\* viewer.model is not null: what `if (!viewer?.model) return` lets past
HasModel == viewerModel.src # NullUrl

\* TextureUploader.processFile -> handleTextureSelect(url, file, slotName)
\* -> applyTexture(url, slotName), up to its await
HandleTextureSelect(c, slotName) ==
  /\ calls[c].pc = "idle"
  /\ IF c = 1 THEN TRUE ELSE calls[c - 1].pc # "idle"
  /\ modelUrl # NullUrl
  /\ LET url == MkUrl(0, c)
     IN  /\ CreateObjectURL(url, FileBlobOf(MkFile(A_PNG, Bytes)))
         /\ textures' = (slotName :> url) @@ textures
         /\ calls' = [calls EXCEPT ![c] =
                        IF ~HasModel
                        THEN [pc |-> "done", url |-> url, slot |-> slotName,
                              result |-> "noModel", model |-> NullUrl]
                        ELSE [pc |-> "creating", url |-> url, slot |-> slotName,
                              result |-> "none", model |-> viewerModel.src]]
  /\ UNCHANGED <<ingestVars, revoked, patchVars, viewerModel, canSetTexture,
                 viewerError, colorVars,
                 modelUrl, modelName, textureApplied, availableMaterials>>

\* createTexture resolves: the rest of applyTexture
CreateTextureResolved(c) ==
  LET cur == calls[c]
      target == FindTarget(viewerModel.materials, cur.slot)
  IN  /\ cur.pc = "creating"
      /\ IF ~HasModel
         THEN \* viewer.model.materials throws; caught and logged
              /\ calls' = [calls EXCEPT ![c].pc = "done", ![c].result = "error",
                                        ![c].model = NullUrl]
              /\ UNCHANGED <<viewerModel, textureApplied>>
         ELSE IF target = 0
         THEN /\ calls' = [calls EXCEPT ![c].pc = "done", ![c].result = "noMaterial",
                                             ![c].model = NullUrl]
              /\ UNCHANGED <<viewerModel, textureApplied>>
         ELSE /\ viewerModel' = [viewerModel EXCEPT !.materials[target] =
                                   SetTexture(@, cur.url)]
              /\ textureApplied' = TRUE
              /\ calls' = [calls EXCEPT ![c].pc = "done", ![c].result = "applied",
                                             ![c].model = NullUrl]
      /\ UNCHANGED <<ingestVars, urlVars, patchVars, canSetTexture, viewerError,
                     colorVars, modelUrl, modelName, textures, availableMaterials>>

\* createTexture rejects: caught and logged
CreateTextureRejected(c) ==
  /\ calls[c].pc = "creating"
  /\ calls' = [calls EXCEPT ![c].pc = "done", ![c].result = "error",
                                        ![c].model = NullUrl]
  /\ UNCHANGED <<ingestVars, urlVars, patchVars, pageVars, viewerModel,
                 canSetTexture, viewerError, colorVars>>

(***************************************************************************)
(* ColorPicker: loadMaterials and applyColor                               *)
(***************************************************************************)
\* the colors of COLOR_PRESETS offered here, and the color of a new entry
Colors == {"#dc2626"}
DefaultColor == "#888888"

\* !selectedMaterial: null or the empty string
NotSelected(sel) == sel = <<>> \/ sel[1] = <<>>

\* viewer.model.materials.map(mat => ({name, displayName, color: '#888888'}))
MaterialList(materials) ==
  [i \in 1..Len(materials) |-> [name |-> materials[i].name, color |-> DefaultColor]]

\* the effect of ColorPicker runs again when selectedMaterial changes:
\* attachListeners calls handleLoad at once if the viewer holds a model
EffectRuns(sel) == sel # selectedMaterial /\ viewerModel.src # NullUrl

EffectTimers(timers, sel) == IF EffectRuns(sel) THEN Append(timers, sel) ELSE timers

\* the timer of handleLoad fires: loadMaterials of the render that set it
LoadMaterials ==
  /\ cpTimers # <<>>
  /\ LET captured == Head(cpTimers)
         materialList == MaterialList(viewerModel.materials)
         sel == IF Len(materialList) > 0 /\ NotSelected(captured)
                THEN <<materialList[1].name>>
                ELSE selectedMaterial
     IN  IF ~HasModel
         THEN /\ cpTimers' = Tail(cpTimers)
              /\ UNCHANGED <<cpMaterials, selectedMaterial>>
         ELSE /\ cpMaterials' = materialList
              /\ selectedMaterial' = sel
              /\ cpTimers' = EffectTimers(Tail(cpTimers), sel)
  /\ UNCHANGED <<ingestVars, urlVars, patchVars, pageVars, viewerVars, cpMounted, colorCall>>

\* a click on a material button: setSelectedMaterial(mat.name)
SelectMaterialClick(i) ==
  /\ cpMounted
  /\ modelUrl # NullUrl
  /\ Len(cpMaterials) > 1
  /\ i \in 1..Len(cpMaterials)
  /\ EffectRuns(<<cpMaterials[i].name>>) => Len(cpTimers) < MaxTimers
  /\ selectedMaterial' = <<cpMaterials[i].name>>
  /\ cpTimers' = EffectTimers(cpTimers, <<cpMaterials[i].name>>)
  /\ UNCHANGED <<ingestVars, urlVars, patchVars, pageVars, viewerVars,
                 cpMounted, cpMaterials, colorCall>>

\* material.pbrMetallicRoughness.setBaseColorFactor(rgbColor)
SetColor(m, hexColor) == [m EXCEPT !.factor = hexColor]

FindByNameOrFirst(materials, materialName) ==
  LET hits == {i \in 1..Len(materials) : materials[i].name = materialName}
  IN  IF hits = {} THEN Min({Len(materials), 1}) ELSE Min(hits)

\* materials.find(m => m.name === materialName): its index, 0 for undefined
FindByName(materials, materialName) ==
  LET hits == {i \in 1..Len(materials) : materials[i].name = materialName}
  IN  IF hits = {} THEN 0 ELSE Min(hits)

\* a click on a color: handleColorSelect -> applyColor(selectedMaterial, hexColor)
HandleColorSelect(hexColor) ==
  /\ cpMounted
  /\ modelUrl # NullUrl
  /\ Len(cpMaterials) > 0
  /\ ~NotSelected(selectedMaterial)
  /\ colorCall.n < MaxColorCalls
  /\ LET materialName == selectedMaterial[1]
         target == FindByName(viewerModel.materials, materialName)
         call == [n |-> colorCall.n + 1, name |-> materialName, color |-> hexColor]
     IN  IF ~HasModel
         THEN /\ colorCall' = call @@ [outcome |-> "noModel"]
              /\ UNCHANGED <<viewerModel, cpMaterials>>
         ELSE IF target = 0
         THEN /\ colorCall' = call @@ [outcome |-> "noMaterial"]
              /\ UNCHANGED <<viewerModel, cpMaterials>>
         ELSE /\ colorCall' = call @@ [outcome |-> "applied"]
              /\ viewerModel' = [viewerModel EXCEPT !.materials[target] =
                                   SetColor(@, hexColor)]
              /\ cpMaterials' = [i \in 1..Len(cpMaterials) |->
                                   IF cpMaterials[i].name = materialName
                                   THEN [cpMaterials[i] EXCEPT !.color = hexColor]
                                   ELSE cpMaterials[i]]
  /\ UNCHANGED <<ingestVars, urlVars, patchVars, pageVars, canSetTexture, calls,
                 viewerError, cpMounted, selectedMaterial, cpTimers>>

InitViewer ==
  /\ InitPage
  /\ NoPatch
  /\ NoColorPicker
  /\ viewerModel = NoModel
  /\ canSetTexture \in BOOLEAN
  /\ calls = [c \in Calls |-> IdleCall]
  /\ viewerError = NullUrl

NextViewer ==
  \/ \E keep \in BOOLEAN : SelectModel(keep)
  \/ \E materials \in MaterialLists : HandleLoad(materials)
  \/ \E c \in Calls, slotName \in Slots : HandleTextureSelect(c, slotName)
  \/ \E c \in Calls : CreateTextureResolved(c)
  \/ \E c \in Calls : CreateTextureRejected(c)

SpecViewer == InitViewer /\ [][NextViewer]_vars

\* the page with the ColorPicker rendered, and one texture upload
InitColor ==
  /\ InitPage
  /\ NoPatch
  /\ NoViewer
  /\ cpMounted = TRUE
  /\ cpMaterials = <<>>
  /\ selectedMaterial = <<>>
  /\ cpTimers = <<>>
  /\ colorCall = NoColorCall

\* the models loaded while the ColorPicker is watched
ColorLists == {ShirtMaterials, PlainMaterials}

NextColor ==
  \/ \E keep \in BOOLEAN : SelectModel(keep)
  \/ \E materials \in ColorLists : HandleLoad(materials)
  \/ HandleError
  \/ \E slotName \in Slots : HandleTextureSelect(1, slotName)
  \/ CreateTextureResolved(1)
  \/ CreateTextureRejected(1)
  \/ LoadMaterials
  \/ \E i \in 1..MaxMaterials : SelectMaterialClick(i)
  \/ \E hexColor \in Colors : HandleColorSelect(hexColor)

SpecColor == InitColor /\ [][NextColor]_vars

(***************************************************************************)
(* Properties of applyTexture                                              *)
(***************************************************************************)
\* the material's name contains one of the slot's fragments, ignoring case
ContainsFragment(m, slotName) ==
  \E k \in 1..Len(MaterialTargetMap(slotName)) :
     \E i \in 0..(Len(m.name) - Len(MaterialTargetMap(slotName)[k])) :
        \A j \in 1..Len(MaterialTargetMap(slotName)[k]) :
           LowerTok(m.name[i + j]) = LowerTok(MaterialTargetMap(slotName)[k][j])

\* the first material, in the viewer's order, that contains a fragment
FirstContaining(materials, slotName) ==
  IF \A i \in 1..Len(materials) : ~ContainsFragment(materials[i], slotName) THEN 0
  ELSE CHOOSE i \in 1..Len(materials) :
         /\ ContainsFragment(materials[i], slotName)
         /\ \A j \in 1..(i - 1) : ~ContainsFragment(materials[j], slotName)

\* C10: when applyTexture runs to its end for a slot with a static mapping,
\* the material that receives the texture is the first one, in the order
\* the viewer reports, whose name contains one of the slot's fragments
\* ignoring case; no other material changes, and none is found exactly
\* when no material's name contains a fragment.
C10_FirstContainingReceives ==
  [][\A c \in Calls :
       ( /\ calls[c].pc = "creating"
         /\ calls'[c].pc = "done"
         /\ calls'[c].result \in {"applied", "noMaterial"}
         /\ calls[c].slot \in MappedSlots )
       => LET materials == viewerModel.materials
              first == FirstContaining(materials, calls[c].slot)
          IN  /\ (first = 0) <=> (calls'[c].result = "noMaterial")
              /\ \A i \in 1..Len(materials) :
                    i # first => viewerModel'.materials[i] = materials[i]
              /\ (first # 0 /\ (canSetTexture \/ materials[first].info))
                    => viewerModel'.materials[first].texture = calls[c].url]_vars

C10_Witness ==
  \E c \in Calls :
     /\ calls[c].pc = "done" /\ calls[c].result = "applied"
     /\ calls[c].slot = LOGO_1
     /\ Len(viewerModel.materials) = 3
     /\ viewerModel.materials[1].name = BODY
     /\ viewerModel.materials[2].texture = calls[c].url
     /\ viewerModel.materials[3].texture = NullUrl

(***************************************************************************)
(* Properties of texture and color applications                            *)
(***************************************************************************)
\* no material of the list is a target of a texture request for the slot
NoMaterialForSlot(materials, slotName) ==
  IF slotName \in MappedSlots
  THEN \A i \in 1..Len(materials) : ~ContainsFragment(materials[i], slotName)
  ELSE \A i \in 1..Len(materials) :
         ~Includes(ToLowerCase(materials[i].name), ToLowerCase(slotName))

\* no material of the list has the name
NoMaterialNamed(materials, materialName) ==
  \A i \in 1..Len(materials) : materials[i].name # materialName

\* the step in which applyTexture call c ends after createTexture resolved
TextureCallEnds(c) ==
  /\ calls[c].pc = "creating"
  /\ calls'[c].pc = "done"
  /\ calls'[c].result # "error"

\* the step in which applyColor is called
ColorCallMade == colorCall'.n = colorCall.n + 1

IsTargetOf(m, slotName) ==
  IF slotName \in MappedSlots
  THEN ContainsFragment(m, slotName)
  ELSE Includes(ToLowerCase(m.name), ToLowerCase(slotName))

\* the first material of the list that is a target of the slot, 0 if none
FirstTarget(materials, slotName) ==
  IF \A i \in 1..Len(materials) : ~IsTargetOf(materials[i], slotName) THEN 0
  ELSE CHOOSE i \in 1..Len(materials) :
         /\ IsTargetOf(materials[i], slotName)
         /\ \A j \in 1..(i - 1) : ~IsTargetOf(materials[j], slotName)

\* the step in which applyTexture call c ends with onTextureApplied fired
TextureApplied(c) == TextureCallEnds(c) /\ calls'[c].result = "applied"

\* C12: a successful texture application gives the selected material the
\* new texture and the factor [1,1,1,1] and leaves every other material
\* as it was; no material ever carries an uploaded texture with a factor
\* that was not reset.
C12_TextureAndWhiteFactor ==
  /\ [](\A i \in 1..Len(viewerModel.materials) :
         viewerModel.materials[i].texture # NullUrl
           => viewerModel.materials[i].factor = "white")
  /\ [][\A c \in Calls :
          TextureApplied(c) =>
            LET materials == viewerModel.materials
                target == FirstTarget(materials, calls[c].slot)
            IN  /\ target # 0
                /\ viewerModel'.materials[target].texture = calls[c].url
                /\ viewerModel'.materials[target].factor = "white"
                /\ \A i \in 1..Len(materials) :
                      i # target => viewerModel'.materials[i] = materials[i]]_vars

HasLegacyBlock(m) == m.extensions # <<>> /\ m.extensions[1].specGloss # <<>>

\* the members of the material's container, absent ones when it has none
PbrOf(m) ==
  IF m.pbrMetallicRoughness = <<>> THEN EmptyPbr ELSE m.pbrMetallicRoughness[1]

\* the document went through the workaround
Normalized == pDone /\ ~pOut.thrown /\ pJson.materials # <<>>

\* C14: a material carrying the legacy block gets a container whose
\* baseColorTexture and baseColorFactor are the block's diffuseTexture and
\* diffuseFactor when those are present, whose roughnessFactor and
\* metallicFactor are 0.5 and 0.0 only when they were absent, and loses
\* the block; a material without the block is not modified.
C14_LegacyBlockConverted ==
  Normalized =>
    /\ Len(pOut.json.materials[1]) = Len(pJson.materials[1])
    /\ \A i \in 1..Len(pJson.materials[1]) :
         LET m == pJson.materials[1][i]
             n == pOut.json.materials[1][i]
             sg == m.extensions[1].specGloss[1]
             p == PbrOf(m)
         IN  IF HasLegacyBlock(m)
             THEN /\ n.pbrMetallicRoughness # <<>>
                  /\ n.pbrMetallicRoughness[1].baseColorTexture =
                       (IF sg.diffuseTexture # <<>> THEN sg.diffuseTexture
                        ELSE p.baseColorTexture)
                  /\ n.pbrMetallicRoughness[1].baseColorFactor =
                       (IF sg.diffuseFactor # <<>> THEN sg.diffuseFactor
                        ELSE p.baseColorFactor)
                  /\ n.pbrMetallicRoughness[1].roughnessFactor =
                       (IF p.roughnessFactor # <<>> THEN p.roughnessFactor
                        ELSE <<DefaultRoughness>>)
                  /\ n.pbrMetallicRoughness[1].metallicFactor =
                       (IF p.metallicFactor # <<>> THEN p.metallicFactor
                        ELSE <<DefaultMetallic>>)
                  /\ ~HasLegacyBlock(n)
                  /\ n.name = m.name
                  /\ n.extensions[1].other = m.extensions[1].other
             ELSE n = m

\* a legacy material with an explicit roughness and no diffuse texture
\* next to a modern one went through the workaround
C14_Witness ==
  /\ Normalized
  /\ \E i \in 1..Len(pJson.materials[1]) :
       LET m == pJson.materials[1][i]
       IN  /\ HasLegacyBlock(m)
           /\ m.extensions[1].specGloss[1].diffuseTexture = <<>>
           /\ m.extensions[1].specGloss[1].diffuseFactor # <<>>
           /\ PbrOf(m).roughnessFactor # <<>>
           /\ PbrOf(m).metallicFactor = <<>>
           /\ PbrOf(m).baseColorTexture # <<>>
  /\ \E i \in 1..Len(pJson.materials[1]) : ~HasLegacyBlock(pJson.materials[1][i])

\* C15: running the workaround a second time on its own output changes
\* nothing: two runs give the document one run gives, for the input
\* document and for the document patchGltfContent serialises.
C15_NormalizeIdempotent ==
  /\ Normalize(Normalize(pJson)) = Normalize(pJson)
  /\ (pDone /\ ~pOut.thrown) => Normalize(pOut.json) = pOut.json

\* the first run converted a legacy material and cleaned a list that
\* names the extension twice
C15_Witness ==
  /\ Normalized
  /\ \E i \in 1..Len(pJson.materials[1]) : HasLegacyBlock(pJson.materials[1][i])
  /\ pJson.extensionsUsed # <<>>
  /\ Len(pOut.json.extensionsUsed[1]) + 2 = Len(pJson.extensionsUsed[1])
  /\ pOut.json.materials # pJson.materials

(***************************************************************************)
(* Properties of the page with its color picker (checked under SpecColor). *)
(***************************************************************************)
\* the step in which loadMaterials stores the list it read
MaterialsLoaded == cpTimers # <<>> /\ cpTimers' # cpTimers /\ cpMaterials' # cpMaterials

\* the step in which applyColor read the material list
ColorCallReads == ColorCallMade /\ colorCall'.outcome \in {"noMaterial", "applied"}

\* the step is the viewer's load of a model
ModelLoads == viewerModel'.src # viewerModel.src

\* C16: applyTexture, applyColor and loadMaterials read the material list
\* and mutate a material only in a state where the viewer holds a loaded
\* model; a material changes only in such a state or by a load.
C16_ReadsOnlyLoadedModel ==
  [][/\ (\E c \in Calls : TextureCallEnds(c)) => viewerModel.src # NullUrl
     /\ ColorCallReads => viewerModel.src # NullUrl
     /\ MaterialsLoaded => viewerModel.src # NullUrl
     /\ viewerModel'.materials # viewerModel.materials
          => (viewerModel.src # NullUrl \/ ModelLoads)]_vars

\* a texture was uploaded before the model finished loading and applyTexture
\* returned at its guard; later a texture and a color were applied
C16_Witness ==
  /\ calls[1].pc = "done"
  /\ calls[1].result = "noModel"
  /\ viewerModel.src # NullUrl
  /\ cpMaterials # <<>>
  /\ colorCall.outcome = "applied"

(***************************************************************************)
(* Properties of the page's object URLs (checked under Spec).              *)
(***************************************************************************)
\* the model the ingestion published has been replaced by another one
Replaced(t) == Published(t) /\ modelUrl # tasks[t].url

\* C17: once a new model is selected, every URL created for the previous
\* model (the URL of its file or document and the URLs written into its
\* patched document) has been revoked, so that the URLs not revoked belong
\* to the current model or to an ingestion that has not published yet.
C17_PreviousUrlsRevoked ==
  \A t \in Tasks : Replaced(t) => UrlsOf(t) \subseteq revoked

\* the step in which the viewer reports that the selected model failed to load
LoadFails == viewerError' # viewerError

\* C18: a load error of a newly selected model is fatal to its ingestion:
\* after the error the page shows the asset it showed before, not the one
\* that failed, that asset's URL is still usable, and a model the viewer
\* still holds is the one the page shows.
C18_LoadErrorKeepsPriorAsset ==
  [][LoadFails =>
       /\ modelUrl' # viewerError'
       /\ modelUrl' \notin revoked'
       /\ viewerModel'.src # NullUrl => viewerModel'.src = modelUrl']_vars

\* C19: a texture application started while one model is loaded never
\* changes a material of another model and never fires onTextureApplied
\* for it: when the model has changed while createTexture was pending,
\* the application ends without any effect.
C19_StaleApplicationDiscarded ==
  [][\A c \in Calls :
       (calls[c].pc = "creating" /\ calls'[c].pc = "done"
          /\ calls[c].model # viewerModel.src)
       => /\ viewerModel' = viewerModel
          /\ textureApplied' = textureApplied]_vars

\* the material's name contains the k-th fragment of the slot, ignoring case
ContainsKth(m, slotName, k) ==
  Includes(ToLowerCase(m.name), ToLowerCase(MaterialTargetMap(slotName)[k]))

\* the earliest-listed fragment of the slot that some material contains
EarliestFragment(materials, slotName) ==
  Min({k \in 1..Len(MaterialTargetMap(slotName)) :
         \E i \in 1..Len(materials) : ContainsKth(materials[i], slotName, k)})

\* C20: the fragments of a slot's static mapping are tried in their listed
\* order: the material a texture application changes contains the
\* earliest-listed fragment that any material contains, even when a
\* material earlier in the viewer's order contains only a later fragment.
C20_EarlierFragmentWins ==
  [][\A c \in Calls :
       (TextureApplied(c) /\ calls[c].slot \in MappedSlots)
       => LET materials == viewerModel.materials
              k == EarliestFragment(materials, calls[c].slot)
          IN  \A i \in 1..Len(materials) :
                 viewerModel'.materials[i] # materials[i]
                   => ContainsKth(materials[i], calls[c].slot, k)]_vars

(***************************************************************************)
(* Further properties of patchGltfContent (checked under SpecPatch).       *)
(***************************************************************************)
\* the list without the name of the legacy extension, the rest in order
WithoutLegacyName(list) ==
  IF list = <<>> THEN <<>>
  ELSE <<SelectSeq(list[1], LAMBDA e : e # SpecGlossName)>>

\* C21: for every input document, one without a materials array included,
\* the document patchGltfContent serialises has no material carrying the
\* legacy block, and its extensionsRequired and extensionsUsed are the
\* input's lists without the extension's name, the rest in their order.
C21_NoLegacyLeft ==
  (pDone /\ ~pOut.thrown) =>
    /\ pOut.json.materials # <<>> =>
         \A i \in 1..Len(pOut.json.materials[1]) :
            ~HasLegacyBlock(pOut.json.materials[1][i])
    /\ pOut.json.extensionsRequired = WithoutLegacyName(pJson.extensionsRequired)
    /\ pOut.json.extensionsUsed = WithoutLegacyName(pJson.extensionsUsed)

(***************************************************************************)
(* Further properties of the ingestion (checked under Spec).               *)
(***************************************************************************)
\* the archive of the ingestion is a valid container
ValidContainer(t) == tasks[t].archive \in DOMAIN Archives

\* the entries of the ingestion's archive whose decoding succeeds
GoodEntries(t) ==
  {i \in NonDirEntries(tasks[t].archive) : Archives[tasks[t].archive][i].data # "bad"}

\* C22: when the container is valid and the decoding of one entry fails,
\* that entry is skipped: the ingestion does not end as a failed
\* extraction, it shows no extraction alert, and the batch it goes on to
\* classify holds one file per entry that could be decoded.
C22_BadEntrySkipped ==
  \A t \in Tasks :
    ValidContainer(t) =>
      /\ tasks[t].outcome # "zipFailed"
      /\ \A k \in 1..Len(tasks[t].alerts) : tasks[t].alerts[k] # "extractFailed"
      /\ tasks[t].pc \in {"timer", "done"}
           => Len(tasks[t].files) = Cardinality(GoodEntries(t))

\* the batch the ingestion classified leads to the patching of a document
\* that parses
PatchesDocument(t) ==
  LET files == tasks[t].files
  IN  /\ tasks[t].pc \in {"readText", "timer", "done"}
      /\ ~ContainsZip(files)
      /\ ~ContainsGlb(files)
      /\ \E i \in 1..Len(files) : IsGltf(files[i])
      /\ files[FindIndex(files, IsGltf)].data \in DOMAIN Docs

\* C23: no buffer or image reference makes the ingestion fail: whatever
\* the reference strings of a document that parses are, the ingestion
\* does not end in the catch block; it publishes the document's URL.
C23_NoReferenceFailsIngestion ==
  \A t \in Tasks :
    PatchesDocument(t) =>
      /\ tasks[t].outcome # "processFailed"
      /\ tasks[t].pc = "done" => Published(t)

\* the URLs of documents
DocUrls == {u \in DOMAIN blobs : blobs[u].kind = "doc"}

\* the reference went through its lookup in ingestion t before the
\* document got URL u: it was rewritten to a URL created earlier, or it
\* was reported missing, or it is not a relative reference
LookedUp(r, t, u) ==
  \/ r.blob # NullUrl /\ r.blob \in DOMAIN blobs /\ r.blob.t = t /\ r.blob.k < u.k
  \/ r.blob = NullUrl /\ ~RelativeUri(r.uri)
  \/ r.blob = NullUrl /\ \E j \in 1..Len(tasks[t].missing) : tasks[t].missing[j] = r.uri

\* C24: within one .gltf ingestion every lookup has finished before the
\* workaround runs, and both before the document's URL is created and
\* published: every document that has a URL is patched in all its
\* references and carries no legacy block, and the URL an ingestion waits
\* to publish, like the URL the page shows, exists.
C24_PatchedBeforePublished ==
  /\ \A u \in DocUrls :
       LET json == blobs[u].json
       IN  /\ \A i \in 1..Len(AllRefs(json)) : LookedUp(AllRefs(json)[i], u.t, u)
           /\ json.materials # <<>> =>
                \A i \in 1..Len(json.materials[1]) : ~HasLegacyBlock(json.materials[1][i])
           /\ tasks[u.t].pc \in {"timer", "done"}
           /\ tasks[u.t].url = u
  /\ \A t \in Tasks : tasks[t].pc = "timer" => tasks[t].url \in DOMAIN blobs
  /\ modelUrl # NullUrl => modelUrl \in DOMAIN blobs

\* the page shows a document with a rewritten reference whose materials
\* went through the workaround
C24_Witness ==
  /\ modelUrl \in DocUrls
  /\ \E i \in 1..Len(AllRefs(blobs[modelUrl].json)) :
       AllRefs(blobs[modelUrl].json)[i].blob # NullUrl
  /\ blobs[modelUrl].json.materials # <<>>
  /\ blobs[modelUrl].json.materials[1][1].pbrMetallicRoughness # <<>>

(***************************************************************************)
(* Further properties of the viewer and the page (checked under            *)
(* SpecViewer).                                                            *)
(***************************************************************************)
\* C25: the URL of the previous model is revoked only after the viewer
\* has reported the load of the new model: in the step that revokes a
\* URL, the viewer already holds the model the page shows, and that model
\* is not the one revoked.
C25_RevokedAfterNewLoaded ==
  [][\A u \in revoked' \ revoked :
       /\ viewerModel.src = modelUrl'
       /\ modelUrl' # u]_vars

(***************************************************************************)
(* The loading flag (checked under SpecLive).                              *)
(***************************************************************************)
\* C26: whenever processFiles has set an uploader's isLoading to true it
\* sets it back to false later, on every path of the call.
C26_LoadingReset ==
  \A u \in Uploaders : isLoading[u] ~> ~isLoading[u]

(***************************************************************************)
(* Further properties of the color picker (checked under SpecColor).       *)
(***************************************************************************)
\* the names of the picker's list, in order
ListedNames == [i \in 1..Len(cpMaterials) |-> cpMaterials[i].name]

\* the picker's list is that of the model the viewer holds, it is not
\* empty and no reload is pending
ListLoaded ==
  /\ viewerModel.src # NullUrl
  /\ cpTimers = <<>>
  /\ cpMaterials # <<>>
  /\ ListedNames = [i \in 1..Len(viewerModel.materials) |-> viewerModel.materials[i].name]

\* C27: once the picker's list has been loaded for the model the viewer
\* holds and is not empty, selectedMaterial is the name of a material of
\* that list, whatever models were loaded before.
C27_SelectedIsListed ==
  ListLoaded =>
    /\ selectedMaterial # <<>>
    /\ \E i \in 1..Len(cpMaterials) : cpMaterials[i].name = selectedMaterial[1]

(***************************************************************************)
(* TextureUploader: the slot it passes to onTextureSelect.  Its effect     *)
(* brings selectedSlot back among the offered ones after every render, so  *)
(* the user uploads for a slot the current mode offers.                    *)
(***************************************************************************)
\* the tokens of material names that contain one of standardKeywords
\* (logo, front, back, sleeve, decals), in lower case
KeywordToks == {"logo", "_front", "_back", "_sleeve", "sleeve", "decals"}

\* standardKeywords.some(kw => mat.toLowerCase().includes(kw))
HasKeyword(mat) == \E i \in 1..Len(mat) : LowerTok(mat[i]) \in KeywordToks

\* the useMemo of mode
Mode(materialNames) ==
  IF Len(materialNames) = 0 THEN "standard"
  ELSE IF \E i \in 1..Len(materialNames) : HasKeyword(materialNames[i])
       THEN "standard"
       ELSE "custom"

\* the ids of TEXTURE_SLOTS
TEXTURE_SLOTS == {LOGO_1, LOGO_2, LOGO_3}

\* the buttons of standard mode, the options of custom mode
OfferedSlots(materialNames) ==
  IF Mode(materialNames) = "custom"
  THEN {materialNames[i] : i \in 1..Len(materialNames)}
  ELSE TEXTURE_SLOTS

\* models with a material whose name contains another's, and with a
\* keyword that no slot's fragment contains
TrimMaterials == <<Material(<<"Body", "_trim">>, TRUE), Material(BODY, TRUE)>>
SleeveMaterials == <<Material(BODY, TRUE), Material(<<"sleeve">>, TRUE)>>

UploaderLists == {ShirtMaterials, PlainMaterials, TrimMaterials, SleeveMaterials}

\* processFile: onTextureSelect(url, file, selectedSlot)
ProcessFile(c) ==
  \E slotName \in OfferedSlots(availableMaterials) : HandleTextureSelect(c, slotName)

NextUploader ==
  \/ \E keep \in BOOLEAN : SelectModel(keep)
  \/ \E materials \in UploaderLists : HandleLoad(materials)
  \/ \E c \in Calls : ProcessFile(c)
  \/ \E c \in Calls : CreateTextureResolved(c)
  \/ \E c \in Calls : CreateTextureRejected(c)

SpecUploader == InitViewer /\ [][NextUploader]_vars

(***************************************************************************)
(* Properties of the uploads TextureUploader makes (checked under          *)
(* SpecUploader).                                                          *)
(***************************************************************************)
\* call c was made for the model the viewer holds, whose material names
\* the page has, c ends in this step and did not fail in createTexture
EndsForCurrentModel(c) ==
  /\ TextureCallEnds(c)
  /\ calls[c].model = viewerModel.src
  /\ availableMaterials = MaterialNames(viewerModel.materials)

\* C28: in custom mode an upload for the material name M the user picked
\* from the model's list changes the material whose name is exactly M and
\* no other material.
C28_ExactMaterialMutated ==
  [][\A c \in Calls :
       ( /\ EndsForCurrentModel(c)
         /\ Mode(availableMaterials) = "custom"
         /\ calls[c].slot \in OfferedSlots(availableMaterials) )
       => LET materials == viewerModel.materials
          IN  /\ calls'[c].result = "applied"
              /\ \A i \in 1..Len(materials) :
                    viewerModel'.materials[i] # materials[i]
                      => materials[i].name = calls[c].slot
              /\ canSetTexture =>
                    \E i \in 1..Len(materials) :
                       /\ materials[i].name = calls[c].slot
                       /\ viewerModel'.materials[i].texture = calls[c].url]_vars

\* C29: whenever TextureUploader is in standard mode for a loaded model
\* with a non-empty material list, at least one of the slots it offers
\* resolves to a material of that model under applyTexture's mapping.
C29_StandardSlotResolves ==
  ( /\ viewerModel.src # NullUrl
    /\ availableMaterials = MaterialNames(viewerModel.materials)
    /\ Len(availableMaterials) > 0
    /\ Mode(availableMaterials) = "standard" )
  => \E slotName \in TEXTURE_SLOTS :
        \E i \in 1..Len(viewerModel.materials) :
           ContainsFragment(viewerModel.materials[i], slotName)

\* the upload that made the URL is still waiting for createTexture, or it
\* ended with the texture applied
PendingOrApplied(url) ==
  \E c \in Calls :
     /\ calls[c].url = url
     /\ calls[c].pc = "creating" \/ calls[c].result = "applied"

\* C30: the page's textures map holds a URL for a slot only if that
\* texture was applied to a material of the model: an upload that matches
\* no material, fails in createTexture or arrives before the model is
\* loaded leaves no entry.
C30_TexturesOnlyApplied ==
  \A slotName \in DOMAIN textures : PendingOrApplied(textures[slotName])

=============================================================================
